---- MODULE Spec2Model ----
(***************************************************************************)
(* mqtt-ranger: the ingestion pipeline (broker connection -> producer ->   *)
(* bounded queue -> consumer -> mutex-guarded topic store) and the         *)
(* interactive loop that renders and navigates the store.                  *)
(*                                                                         *)
(* The specifications share the variables:                                 *)
(*   Spec        the program as mqtt::run starts it: the message-handler   *)
(*               task builds the handle_incoming_messages future without   *)
(*               awaiting it, so the producer loop never runs;             *)
(*   SpecDriven  handle_incoming_messages polled by an executor, together  *)
(*               with the consumer task and the topic-activity screen;     *)
(*   SpecLive    SpecDriven under fair scheduling of the tasks;            *)
(*   SpecFlood   producer and consumer alone on a one-publish alphabet,    *)
(*               long enough to fill the queue of capacity 100.            *)
(*   SpecParse   the parsing of the port text;                             *)
(*   SpecForm    the configuration form with its validation threads;       *)
(*   SpecNav     next and previous called repeatedly on a given store;     *)
(*   SpecPoison  SpecDriven's tasks with a consumer that may panic while   *)
(*               it holds the store lock;                                  *)
(*   SpecMain    main around the tasks and the interactive loop, with the  *)
(*               terminal modes it switches;                               *)
(*   SpecTick    the timing of the interactive loop: draw, poll timeout,   *)
(*               tick;                                                     *)
(*   SpecFormLive  the configuration form under fair scheduling of its     *)
(*               loop and of the validation threads.                       *)
(***************************************************************************)
EXTENDS Integers, Sequences, FiniteSets, TLC

VARIABLES
    topics,          \* TopicActivityMenuState.topics
    selected_index,  \* TopicActivityMenuState.selected_index
    holders,         \* parties holding a MutexGuard of the store
    queue,           \* mpsc channel buffer, oldest first
    txOpen,          \* the Sender<MQTTEvent> has not been dropped
    rxOpen,          \* the Receiver<MQTTEvent> has not been dropped
    rpc,             \* position of mqtt::run
    ppc,             \* position of the message-handler task / producer future
    pending,         \* event the producer is sending (tx.send(..).await)
    cpc,             \* position of update_topic_menu_state
    cur,             \* event the consumer has received and is applying
    upc,             \* position of TopicActivityScreen::run
    snapshot,        \* what the last draw read through the guard
    polled,          \* number of event_loop.poll() calls that returned Ok
    notification,    \* what the last event_loop.poll() returned
    constructed,     \* history: events the producer constructed, in order
    emitted,         \* history: events pushed onto the queue, in order
    applied,         \* history: events push_message_into_topic applied
    lost,            \* history: events whose send returned Err (ignored)
    config,          \* the MQTTConfig mqtt::run was called with
    host,            \* ConfigFormState.host, a sequence of characters
    port,            \* ConfigFormState.port, a sequence of characters
    focus,           \* ConfigFormState.focus
    error,           \* ConfigFormState.error
    connecting,      \* ConfigFormState.connecting
    spinner_idx,     \* ConfigFormState.spinner_idx
    result,          \* ConfigFormScreen.result / the config the form returned
    pending_conn,    \* ConfigFormScreen.pending_conn: None or Some(the probe
                     \* whose Receiver it holds)
    probes,          \* the validation threads spawned so far, with their
                     \* channels
    since_spinner,   \* milliseconds since last_spinner_tick, capped
    fpc,             \* position of the config form's loop
    input,           \* the string given to str::parse::<u16>
    parsed,          \* what the parse returned
    poisoned,        \* the store mutex is poisoned
    nav,             \* a run of next() or previous() calls on one store
    mpc,             \* position of main
    raw_mode,        \* the terminal is in raw mode
    alternate_screen, \* the terminal shows the alternate screen
    tpc,             \* position of the loop, for its timing
    elapsed,         \* last_tick.elapsed(), in milliseconds
    timeout          \* the timeout of the last event::poll, in milliseconds

pipeVars == <<topics, selected_index, holders, queue, txOpen, rxOpen, rpc,
              ppc, pending, cpc, cur, upc, snapshot, polled, notification,
              constructed, emitted, applied, lost, config>>

formVars == <<host, port, focus, error, connecting, spinner_idx, result,
              pending_conn, probes, since_spinner, fpc, input, parsed>>

tickVars == <<tpc, elapsed, timeout>>

auxVars == <<poisoned, nav, mpc, raw_mode, alternate_screen, tickVars>>

vars == <<pipeVars, formVars, auxVars>>

storeVars == <<topics, selected_index>>
chanVars  == <<queue, txOpen, rxOpen>>
histVars  == <<constructed, emitted, applied, lost>>
pollVars  == <<polled, notification>>

----------------------------------------------------------------------------
(* Bounds of the model *)

MaxNotifications == 3        \* polls the connection answers in SpecDriven
FloodExtra == 2              \* polls beyond the queue capacity in SpecFlood

(* Program constants *)

QueueCapacity == 100         \* mpsc::channel::<MQTTEvent>(100)

----------------------------------------------------------------------------
(* Data *)

TopicNames == {"a", "b"}
InvalidUtf8 == {"\\xFF"}
RawPayloads == {"1"} \cup InvalidUtf8
Instants == {1500}           \* arrival instants, in milliseconds

NoEvent == [none |-> TRUE]

\* Option<T>
None == <<>>
Some(x) == <<x>>

\* Result<u16, ParseIntError>, and the value before a parse
ParseOk(n) == [kind |-> "Ok", value |-> n]
ParseErr == [kind |-> "Err", value |-> 0]
Unparsed == [kind |-> "Unparsed", value |-> 0]

\* MQTTConfig { host, port }
Hosts == {"localhost", "broker.local"}
Ports == {1883, 8883}
MQTTConfig == [host : Hosts, port : Ports]
DefaultConfig == [host |-> "localhost", port |-> 1883]

\* String::from_utf8_lossy: invalid byte sequences become U+FFFD
FromUtf8Lossy(bytes) == IF bytes \in InvalidUtf8 THEN "U+FFFD" ELSE bytes

\* "[year]-[month]-[day] [hour]:[minute]:[second]" has no sub-second part
FormatTimestamp(ms) == ms \div 1000

PublishNotifications ==
    [kind : {"publish"}, topic : TopicNames, payload : RawPayloads]
OtherNotifications ==
    {[kind |-> "suback"], [kind |-> "pingresp"], [kind |-> "outgoing"]}
Notifications == PublishNotifications \cup OtherNotifications

FloodNotifications ==
    {[kind |-> "publish", topic |-> "a", payload |-> "1"]}

MQTTEvent(n, ms) ==
    [topic |-> n.topic, payload |-> FromUtf8Lossy(n.payload), timestamp |-> ms]

MessageActivity(ev) ==
    [payload |-> ev.payload, timestamp |-> FormatTimestamp(ev.timestamp)]

----------------------------------------------------------------------------
(* The store operations *)

FindTopicNever(ts, name) == 0

\* iter_mut().find(|t| t.name == topic_name): index of the first match, or 0
FindTopic(ts, name) ==
    IF \E i \in 1..Len(ts) : ts[i].name = name
    THEN CHOOSE i \in 1..Len(ts) :
             /\ ts[i].name = name
             /\ \A j \in 1..(i - 1) : ts[j].name # name
    ELSE 0

push_message_into_topic_front(ts, ev) ==
    LET i == FindTopic(ts, ev.topic) IN
    IF i # 0
    THEN [ts EXCEPT ![i].messages = Append(@, MessageActivity(ev))]
    ELSE <<[name |-> ev.topic, messages |-> <<MessageActivity(ev)>>]>> \o ts

\* an upsert that keeps only the latest message of a topic
push_message_into_topic_latest(ts, ev) ==
    LET i == FindTopic(ts, ev.topic) IN
    IF i # 0
    THEN [ts EXCEPT ![i].messages = <<MessageActivity(ev)>>]
    ELSE Append(ts, [name |-> ev.topic, messages |-> <<MessageActivity(ev)>>])

push_message_into_topic(ts, ev) ==
    LET i == FindTopic(ts, ev.topic) IN
    IF i # 0
    THEN [ts EXCEPT ![i].messages = Append(@, MessageActivity(ev))]
    ELSE Append(ts, [name |-> ev.topic, messages |-> <<MessageActivity(ev)>>])

\* usize arithmetic: % fails on a zero divisor, - on a result below zero
UsizeRem(a, b) ==
    IF b = 0 THEN [value |-> a, failed |-> TRUE]
    ELSE [value |-> a % b, failed |-> FALSE]

UsizeSub(a, b) ==
    IF a < b THEN [value |-> a, failed |-> TRUE]
    ELSE [value |-> a - b, failed |-> FALSE]

\* !self.topics.is_empty()
IsNonEmptyAlways(ts) == TRUE

IsNonEmpty(ts) == Len(ts) # 0

next_outcome_saturating(ts, idx) ==
    IF IsNonEmpty(ts)
    THEN [value |-> IF idx + 1 < Len(ts) THEN idx + 1 ELSE idx,
          failed |-> FALSE]
    ELSE [value |-> idx, failed |-> FALSE]

\* AppState::next with the outcome of its arithmetic
next_outcome(ts, idx) ==
    IF IsNonEmpty(ts) THEN UsizeRem(idx + 1, Len(ts))
    ELSE [value |-> idx, failed |-> FALSE]

\* AppState::previous with the outcome of its arithmetic
previous_outcome(ts, idx) ==
    IF IsNonEmpty(ts)
    THEN IF idx = 0 THEN UsizeSub(Len(ts), 1) ELSE UsizeSub(idx, 1)
    ELSE [value |-> idx, failed |-> FALSE]

next_unwrapped(ts, idx) ==
    IF Len(ts) # 0 THEN idx + 1 ELSE idx

\* AppState::next, on 0-based selected_index
next(ts, idx) == next_outcome(ts, idx).value

previous_saturating(ts, idx) ==
    IF Len(ts) # 0 /\ idx # 0 THEN idx - 1 ELSE idx

\* AppState::previous
previous(ts, idx) == previous_outcome(ts, idx).value

----------------------------------------------------------------------------
(* Initial states *)

\* nothing locked, queued, polled or drawn yet
InitPipeline ==
    /\ holders = {}
    /\ queue = <<>>
    /\ pending = NoEvent
    /\ cur = NoEvent
    /\ snapshot = NoEvent
    /\ polled = 0
    /\ notification = "none"
    /\ constructed = <<>>
    /\ emitted = <<>>
    /\ applied = <<>>
    /\ lost = <<>>

\* AppState::new
InitStore ==
    /\ topics = <<>>
    /\ selected_index = 0

InitCommon ==
    /\ InitStore
    /\ InitPipeline

\* ConfigFormScreen::new with ConfigFormState::new
InitFormState ==
    /\ host = <<>>
    /\ port = <<>>
    /\ focus = "Host"
    /\ error = None
    /\ connecting = FALSE
    /\ spinner_idx = 0
    /\ result = None
    /\ pending_conn = None
    /\ probes = <<>>
    /\ since_spinner = 0

\* no run of navigation calls
NoNav == [op |-> "none", start |-> 0, count |-> 0, failed |-> FALSE]

\* the timing of the loop not modelled
InitTickIdle ==
    /\ tpc = "none"
    /\ elapsed = 0
    /\ timeout = 0

\* the store mutex as Mutex::new leaves it, main not modelled
InitAuxIdle ==
    /\ poisoned = FALSE
    /\ nav = NoNav
    /\ mpc = "none"
    /\ raw_mode = FALSE
    /\ alternate_screen = FALSE
    /\ InitTickIdle

\* no config form on screen, nothing being parsed
InitFormIdle ==
    /\ InitFormState
    /\ fpc = "none"
    /\ input = <<>>
    /\ parsed = Unparsed

\* the program before mqtt::run is called
Init ==
    /\ InitCommon
    /\ InitFormIdle
    /\ InitAuxIdle
    /\ txOpen = FALSE
    /\ rxOpen = FALSE
    /\ rpc = "configure"
    /\ config \in MQTTConfig
    /\ ppc = "none"
    /\ cpc = "none"
    /\ upc = "none"

\* the producer future polled by an executor, the consumer task spawned and
\* the topic-activity screen entered
InitDriven ==
    /\ InitCommon
    /\ InitFormIdle
    /\ InitAuxIdle
    /\ txOpen = TRUE
    /\ rxOpen = TRUE
    /\ rpc = "returned"
    /\ config = DefaultConfig
    /\ ppc = "poll"
    /\ cpc = "recv"
    /\ upc = "render"

\* producer and consumer alone
InitFlood ==
    /\ InitCommon
    /\ InitFormIdle
    /\ InitAuxIdle
    /\ txOpen = TRUE
    /\ rxOpen = TRUE
    /\ rpc = "returned"
    /\ config = DefaultConfig
    /\ ppc = "poll"
    /\ cpc = "recv"
    /\ upc = "none"

----------------------------------------------------------------------------
(* The store mutex: lock() returns a guard only when no other party holds one *)

MutexFreeAlways(h) == TRUE

MutexFree(h) == h = {}

----------------------------------------------------------------------------
(* mqtt::run and the two tasks it spawns *)

\* configure_mqtt_client: create the client and subscribe to "#"
configure_mqtt_client ==
    /\ rpc = "configure"
    /\ \E subscribed \in BOOLEAN :
          rpc' = IF subscribed THEN "channel" ELSE "failed"
    /\ UNCHANGED <<storeVars, holders, chanVars, ppc, pending, cpc, cur, upc,
                   snapshot, pollVars, histVars, config, formVars, auxVars>>

\* let (tx, rx) = mpsc::channel::<MQTTEvent>(100)
run_channel ==
    /\ rpc = "channel"
    /\ rpc' = "spawn_handler"
    /\ txOpen' = TRUE
    /\ rxOpen' = TRUE
    /\ UNCHANGED <<storeVars, holders, queue, ppc, pending, cpc, cur, upc,
                   snapshot, pollVars, histVars, config, formVars, auxVars>>

\* tokio::spawn(async move { handle_incoming_messages(mqtt_client, tx) })
spawn_message_handler ==
    /\ rpc = "spawn_handler"
    /\ rpc' = "spawn_updater"
    /\ ppc' = "spawned"
    /\ UNCHANGED <<storeVars, holders, chanVars, pending, cpc, cur, upc,
                   snapshot, pollVars, histVars, config, formVars, auxVars>>

\* The spawned block calls handle_incoming_messages without awaiting it: the
\* block's value is the future the call returns, not yet polled.
message_handler_task ==
    /\ ppc = "spawned"
    /\ ppc' = "created"
    /\ UNCHANGED <<storeVars, holders, chanVars, rpc, pending, cpc, cur, upc,
                   snapshot, pollVars, histVars, config, formVars, auxVars>>

\* The JoinHandle was discarded, so the finished task's output (the future,
\* owning mqtt_client and tx) is dropped unpolled.
message_handler_output_dropped ==
    /\ ppc = "created"
    /\ ppc' = "dropped"
    /\ txOpen' = FALSE
    /\ UNCHANGED <<storeVars, holders, queue, rxOpen, rpc, pending, cpc, cur,
                   upc, snapshot, pollVars, histVars, config, formVars, auxVars>>

\* tokio::spawn(async move { update_topic_menu_state(app, rx).await; }); Ok(())
spawn_menu_updater ==
    /\ rpc = "spawn_updater"
    /\ rpc' = "returned"
    /\ cpc' = "recv"
    /\ UNCHANGED <<storeVars, holders, chanVars, ppc, pending, cur, upc,
                   snapshot, pollVars, histVars, config, formVars, auxVars>>

----------------------------------------------------------------------------
(* handle_incoming_messages, once its future is polled *)

HasCapacityAlways(q) == TRUE

\* the channel was created with room for QueueCapacity events
HasCapacity(q) == Len(q) < QueueCapacity

handle_incoming_messages_reconnect ==
    /\ ppc = "poll"
    /\ ppc' = "poll"
    /\ notification' = "Err"
    /\ UNCHANGED <<storeVars, holders, chanVars, rpc, pending, cpc, cur, upc,
                   snapshot, polled, histVars, config, formVars, auxVars>>

\* event_loop.poll().await returned Err: the while-let loop ends, the function
\* returns, mqtt_client and tx are dropped
handle_incoming_messages_end ==
    /\ ppc = "poll"
    /\ ppc' = "done"
    /\ notification' = "Err"
    /\ txOpen' = FALSE
    /\ UNCHANGED <<storeVars, holders, queue, rxOpen, rpc, pending, cpc, cur,
                   upc, snapshot, polled, histVars, config, formVars, auxVars>>

handle_incoming_messages_any(limit) ==
    /\ ppc = "poll"
    /\ polled < limit
    /\ polled' = polled + 1
    /\ \E n \in OtherNotifications, ms \in Instants :
          /\ notification' = n.kind
          /\ HasCapacity(queue)
          /\ queue' = Append(queue, [topic |-> n.kind, payload |-> "",
                                     timestamp |-> ms])
    /\ UNCHANGED <<storeVars, holders, txOpen, rxOpen, rpc, ppc, pending, cpc,
                   cur, upc, snapshot, histVars, config, formVars, auxVars>>

\* poll returned a notification that is not Event::Incoming(Packet::Publish)
handle_incoming_messages_other(limit) ==
    /\ ppc = "poll"
    /\ polled < limit
    /\ polled' = polled + 1
    /\ \E n \in OtherNotifications : notification' = n.kind
    /\ UNCHANGED <<storeVars, holders, chanVars, rpc, ppc, pending, cpc, cur,
                   upc, snapshot, histVars, config, formVars, auxVars>>

\* poll returned a publish: build the event.  unwrap_or evaluates its argument
\* first, so UtcOffset::current_local_offset().unwrap() runs on every publish
\* and panics when the local offset cannot be determined.
handle_incoming_messages_publish(notes, limit) ==
    /\ ppc = "poll"
    /\ polled < limit
    /\ polled' = polled + 1
    /\ notification' = "publish"
    /\ \E n \in notes, ms \in Instants, offsetKnown \in BOOLEAN :
          IF offsetKnown
          THEN /\ pending' = MQTTEvent(n, ms)
               /\ constructed' = Append(constructed, MQTTEvent(n, ms))
               /\ ppc' = "send"
               /\ txOpen' = txOpen
          ELSE /\ ppc' = "panicked"
               /\ txOpen' = FALSE
               /\ UNCHANGED <<pending, constructed>>
    /\ UNCHANGED <<storeVars, holders, queue, rxOpen, rpc, cpc, cur, upc,
                   snapshot, emitted, applied, lost, config, formVars, auxVars>>

\* let _ = tx.send(event).await: waits while the buffer is full; an Err (the
\* receiver is gone) is ignored
handle_incoming_messages_send ==
    /\ ppc = "send"
    /\ IF ~rxOpen
       THEN /\ lost' = Append(lost, pending)
            /\ UNCHANGED <<queue, emitted>>
       ELSE /\ HasCapacity(queue)
            /\ queue' = Append(queue, pending)
            /\ emitted' = Append(emitted, pending)
            /\ lost' = lost
    /\ pending' = NoEvent
    /\ ppc' = "poll"
    /\ UNCHANGED <<storeVars, holders, txOpen, rxOpen, rpc, cpc, cur, upc,
                   snapshot, pollVars, constructed, applied, config, formVars, auxVars>>

----------------------------------------------------------------------------
(* update_topic_menu_state and push_message_into_topic *)

\* rx.recv().await: the oldest buffered event, or None once every sender is
\* dropped and the buffer is empty
QueueTakeLast(q) == [event |-> q[Len(q)], rest |-> SubSeq(q, 1, Len(q) - 1)]

QueueTake(q) == [event |-> Head(q), rest |-> Tail(q)]

QueueClosedEarly(q, senderAlive) == ~senderAlive

QueueClosed(q, senderAlive) == q = <<>> /\ ~senderAlive

update_topic_menu_state_recv ==
    /\ cpc = "recv"
    /\ IF QueueClosed(queue, txOpen)
       THEN /\ cpc' = "done"
            /\ rxOpen' = FALSE
            /\ UNCHANGED <<cur, queue>>
       ELSE /\ queue # <<>>
            /\ cur' = QueueTake(queue).event
            /\ queue' = QueueTake(queue).rest
            /\ cpc' = "lock"
            /\ rxOpen' = rxOpen
    /\ UNCHANGED <<storeVars, holders, txOpen, rpc, ppc, pending, upc,
                   snapshot, pollVars, histVars, config, formVars, auxVars>>

\* let mut menu_lock = menu_state.lock().unwrap()
push_message_into_topic_lock ==
    /\ cpc = "lock"
    /\ MutexFree(holders)
    /\ holders' = holders \cup {"consumer"}
    /\ cpc' = "push"
    /\ UNCHANGED <<storeVars, chanVars, rpc, ppc, pending, cur, upc,
                   snapshot, pollVars, histVars, config, formVars, auxVars>>

\* an upsert that also moves the selection to the topic it wrote
push_message_into_topic_apply_selecting ==
    /\ cpc = "push"
    /\ topics' = push_message_into_topic(topics, cur)
    /\ selected_index' = FindTopic(topics', cur.topic) - 1
    /\ applied' = Append(applied, cur)
    /\ cpc' = "unlock"
    /\ UNCHANGED <<holders, chanVars, rpc, ppc, pending, cur,
                   upc, snapshot, pollVars, constructed, emitted, lost, config, formVars, auxVars>>

\* find the topic, format the timestamp, push the message or the new topic
push_message_into_topic_apply ==
    /\ cpc = "push"
    /\ topics' = push_message_into_topic(topics, cur)
    /\ applied' = Append(applied, cur)
    /\ cpc' = "unlock"
    /\ UNCHANGED <<selected_index, holders, chanVars, rpc, ppc, pending, cur,
                   upc, snapshot, pollVars, constructed, emitted, lost, config, formVars, auxVars>>

\* menu_lock goes out of scope
push_message_into_topic_unlock ==
    /\ cpc = "unlock"
    /\ holders' = holders \ {"consumer"}
    /\ cur' = NoEvent
    /\ cpc' = "recv"
    /\ UNCHANGED <<storeVars, chanVars, rpc, ppc, pending, upc, snapshot,
                   pollVars, histVars, config, formVars, auxVars>>

----------------------------------------------------------------------------
(* TopicActivityScreen *)

\* the topic-activity screen is entered once mqtt::run has returned Ok
TopicActivityScreen_new ==
    /\ rpc = "returned"
    /\ upc = "none"
    /\ upc' = "render"
    /\ UNCHANGED <<storeVars, holders, chanVars, rpc, ppc, pending, cpc, cur,
                   snapshot, pollVars, histVars, config, formVars, auxVars>>

\* run: let menu_guard = self.menu_state.lock()...
\* on a poisoned mutex lock() returns Err, map_err and ? return the error
run_lock ==
    /\ upc = "render"
    /\ MutexFree(holders)
    /\ IF poisoned
       THEN /\ holders' = holders
            /\ upc' = "error"
       ELSE /\ holders' = holders \cup {"ui"}
            /\ upc' = "draw"
    /\ UNCHANGED <<storeVars, chanVars, rpc, ppc, pending, cpc, cur, snapshot,
                   pollVars, histVars, config, formVars, auxVars>>

run_draw_selecting_first ==
    /\ upc = "draw"
    /\ snapshot' = [topics |-> topics, selected_index |-> selected_index,
                    concurrent |-> holders \ {"ui"}]
    /\ selected_index' = 0
    /\ holders' = holders \ {"ui"}
    /\ \E drawn \in BOOLEAN : upc' = IF drawn THEN "input" ELSE "error"
    /\ UNCHANGED <<topics, chanVars, rpc, ppc, pending, cpc, cur, pollVars,
                   histVars, config, formVars, auxVars>>

\* run: terminal.draw(|f| render_topic_activity_screen_ui(f, &*menu_guard))?
\* reads the store through the guard; the guard is dropped at the end of the
\* block, or by the ? on an I/O error
run_draw ==
    /\ upc = "draw"
    /\ snapshot' = [topics |-> topics, selected_index |-> selected_index,
                    concurrent |-> holders \ {"ui"}]
    /\ holders' = holders \ {"ui"}
    /\ \E drawn \in BOOLEAN : upc' = IF drawn THEN "input" ELSE "error"
    /\ UNCHANGED <<storeVars, chanVars, rpc, ppc, pending, cpc, cur, pollVars,
                   histVars, config, formVars, auxVars>>

\* handle_input: event::poll(timeout)?, event::read()?, match key.code
InputOutcomes == {"timeout", "q", "Down", "Up", "other", "error"}

\* where the loop goes on an input outcome: q breaks the loop, Down and Up
\* go on to lock the store, an I/O error returns, anything else loops
AfterInputIgnoresQuit(e) ==
    CASE e = "Down"  -> "down"
      [] e = "Up"    -> "up"
      [] e = "error" -> "error"
      [] OTHER       -> "render"

AfterInput(e) ==
    CASE e = "q"     -> "terminated"
      [] e = "Down"  -> "down"
      [] e = "Up"    -> "up"
      [] e = "error" -> "error"
      [] OTHER       -> "render"

handle_input ==
    /\ upc = "input"
    /\ \E e \in InputOutcomes : upc' = AfterInput(e)
    /\ UNCHANGED <<storeVars, holders, chanVars, rpc, ppc, pending, cpc, cur,
                   snapshot, pollVars, histVars, config, formVars, auxVars>>

handle_input_down_twice ==
    /\ upc = "down"
    /\ MutexFree(holders)
    /\ selected_index' = next(topics, next(topics, selected_index))
    /\ upc' = "render"
    /\ UNCHANGED <<topics, holders, chanVars, rpc, ppc, pending, cpc, cur,
                   snapshot, pollVars, histVars, config, formVars, auxVars>>

\* KeyCode::Down: if let Ok(mut s) = self.menu_state.lock() { s.next() }
handle_input_down ==
    /\ upc = "down"
    /\ MutexFree(holders)
    /\ selected_index' = IF poisoned THEN selected_index
                         ELSE next(topics, selected_index)
    /\ upc' = "render"
    /\ UNCHANGED <<topics, holders, chanVars, rpc, ppc, pending, cpc, cur,
                   snapshot, pollVars, histVars, config, formVars, auxVars>>

\* KeyCode::Up: if let Ok(mut s) = self.menu_state.lock() { s.previous() }
handle_input_up ==
    /\ upc = "up"
    /\ MutexFree(holders)
    /\ selected_index' = IF poisoned THEN selected_index
                         ELSE previous(topics, selected_index)
    /\ upc' = "render"
    /\ UNCHANGED <<topics, holders, chanVars, rpc, ppc, pending, cpc, cur,
                   snapshot, pollVars, histVars, config, formVars, auxVars>>

----------------------------------------------------------------------------
(* Specifications *)

Consumer ==
    \/ update_topic_menu_state_recv
    \/ push_message_into_topic_lock
    \/ push_message_into_topic_apply
    \/ push_message_into_topic_unlock

Screen ==
    \/ run_lock
    \/ run_draw
    \/ handle_input
    \/ handle_input_down
    \/ handle_input_up

Next ==
    \/ configure_mqtt_client
    \/ run_channel
    \/ spawn_message_handler
    \/ message_handler_task
    \/ message_handler_output_dropped
    \/ spawn_menu_updater
    \/ TopicActivityScreen_new
    \/ update_topic_menu_state_recv
    \/ Screen

\* The steps of push_message_into_topic are left out of Next: no sender ever
\* sends, so update_topic_menu_state never receives an event to apply.
Spec == Init /\ [][Next]_vars

NextDriven ==
    \/ handle_incoming_messages_end
    \/ handle_incoming_messages_other(MaxNotifications)
    \/ handle_incoming_messages_publish(PublishNotifications, MaxNotifications)
    \/ handle_incoming_messages_send
    \/ Consumer
    \/ Screen

SpecDriven == InitDriven /\ [][NextDriven]_vars

NextFlood ==
    \/ handle_incoming_messages_end
    \/ handle_incoming_messages_publish(FloodNotifications,
                                        QueueCapacity + FloodExtra)
    \/ handle_incoming_messages_send
    \/ Consumer

SpecFlood == InitFlood /\ [][NextFlood]_vars

\* Scheduling: tokio runs every spawned task that can proceed, the UI thread
\* finishes a draw it has started, and a party waiting for the store mutex
\* gets it once the other party keeps releasing it.
Fairness ==
    /\ WF_vars(handle_incoming_messages_send)
    /\ WF_vars(update_topic_menu_state_recv)
    /\ SF_vars(push_message_into_topic_lock)
    /\ WF_vars(push_message_into_topic_apply)
    /\ WF_vars(push_message_into_topic_unlock)
    /\ WF_vars(run_draw)

SpecLive == InitDriven /\ [][NextDriven]_vars /\ Fairness

----------------------------------------------------------------------------
(* What the histories say the store must be *)

RECURSIVE FirstSeen(_)
FirstSeen(evs) ==
    IF evs = <<>> THEN <<>>
    ELSE LET front == FirstSeen(SubSeq(evs, 1, Len(evs) - 1))
             name == evs[Len(evs)].topic
         IN IF \E i \in 1..Len(front) : front[i] = name
            THEN front ELSE Append(front, name)

PayloadsFor(evs, name) ==
    LET sel == SelectSeq(evs, LAMBDA e : e.topic = name)
    IN [j \in 1..Len(sel) |-> sel[j].payload]

NamesOf(ts) == [i \in 1..Len(ts) |-> ts[i].name]
PayloadsOf(msgs) == [j \in 1..Len(msgs) |-> msgs[j].payload]

\* the event the consumer has taken from the queue and not yet applied
Inflight == IF cpc \in {"lock", "push"} THEN <<cur>> ELSE <<>>
\* the event the producer has built and not yet pushed
Sending == IF ppc = "send" THEN <<pending>> ELSE <<>>

----------------------------------------------------------------------------
(* Claims *)

\* C1: after any sequence of events applied with push_message_into_topic to
\* an initially empty store, topics holds each distinct name exactly once in
\* first-seen order, and each topic's payloads are the pushed payloads for
\* that name in push order.
C1_UpsertFold ==
    /\ NamesOf(topics) = FirstSeen(applied)
    /\ \A i \in 1..Len(topics) :
          PayloadsOf(topics[i].messages) = PayloadsFor(applied, topics[i].name)

C1_Witness ==
    /\ Len(applied) = 3
    /\ Len(topics) = 2
    /\ applied[1].topic = applied[3].topic
    /\ applied[1].payload # applied[3].payload

\* C2: once run has returned Ok and the spawned handler task has run, the
\* producer is polling the connection (or pushing an event, or has ended
\* because the notification stream ended).
C2_ProducerPolls ==
    (rpc = "returned" /\ ppc # "spawned")
        => \/ ppc \in {"poll", "send"}
           \/ ppc = "done" /\ notification = "Err"

\* C3: the events the consumer has applied, followed by the one it holds and
\* the queue's content, are the events the producer emitted, in emission
\* order; and each topic's log is the applied payloads of that topic, in
\* application order.
C3_FifoOrder ==
    /\ emitted = applied \o Inflight \o queue
    /\ constructed = emitted \o Sending \o lost
    /\ \A i \in 1..Len(topics) :
          PayloadsOf(topics[i].messages) = PayloadsFor(applied, topics[i].name)

C3_Witness ==
    /\ Len(topics) = 1
    /\ Len(topics[1].messages) = 2
    /\ topics[1].messages[1].payload # topics[1].messages[2].payload
    /\ queue # <<>>
    /\ snapshot # NoEvent
    /\ Len(snapshot.topics) = 1
    /\ Len(snapshot.topics[1].messages) = 1

\* C4: selected_index is a valid index into topics, or 0 when topics is empty.
C4_SelectedIndexValid ==
    IF topics = <<>>
    THEN selected_index = 0
    ELSE selected_index \in 0..(Len(topics) - 1)

C4_Witness ==
    /\ Len(topics) = 2
    /\ selected_index = 1
    /\ upc = "down"
    /\ cpc = "lock"

\* C5: topics never contains two entries with the same name.
C5_NoDuplicateNames ==
    \A i, j \in 1..Len(topics) : topics[i].name = topics[j].name => i = j

C5_Witness ==
    /\ Len(topics) = 2
    /\ \E i \in 1..2 : Len(topics[i].messages) = 2

\* C6: at most one party holds the store lock, and every snapshot the
\* renderer has read was read with no other holder, equals the store after
\* some whole number of applied events, and shows no topic with an empty log.
StoreAfter(evs) ==
    [i \in 1..Len(FirstSeen(evs)) |->
        LET sel == SelectSeq(evs, LAMBDA e : e.topic = FirstSeen(evs)[i])
        IN [name |-> FirstSeen(evs)[i],
            messages |-> [j \in 1..Len(sel) |-> MessageActivity(sel[j])]]]

C6_AtomicSnapshot ==
    /\ Cardinality(holders) <= 1
    /\ snapshot # NoEvent =>
          /\ snapshot.concurrent = {}
          /\ \E k \in 0..Len(applied) :
                snapshot.topics = StoreAfter(SubSeq(applied, 1, k))
          /\ \A i \in 1..Len(snapshot.topics) :
                snapshot.topics[i].messages # <<>>

C6_Witness ==
    /\ upc = "draw"
    /\ cpc = "lock"
    /\ holders = {"ui"}
    /\ snapshot # NoEvent
    /\ Len(snapshot.topics) = 1
    /\ Len(topics) = 2

\* C7: the queue never holds more than QueueCapacity events, and while the
\* consumer is running every event the producer constructed is applied, held
\* by the consumer, buffered, or still being pushed: none is dropped.
C7_BoundedNoLoss ==
    /\ Len(queue) <= QueueCapacity
    /\ cpc # "done" =>
          /\ lost = <<>>
          /\ constructed = applied \o Inflight \o queue \o Sending

C7_Witness ==
    /\ Len(queue) = QueueCapacity
    /\ ppc = "send"
    /\ pending # NoEvent
    /\ cpc = "recv"

\* C8: a poll that returns anything but a publish leaves the queue, the
\* event being pushed, the histories of built and emitted events and the
\* store unchanged, and the producer goes on polling.
C8_OnlyPublishEnqueues ==
    [][(polled' # polled /\ notification' # "publish")
          => /\ UNCHANGED <<queue, pending, constructed, emitted, lost>>
             /\ UNCHANGED <<topics, selected_index>>
             /\ ppc' = "poll"]_vars

C8_Witness ==
    /\ notification \in {"suback", "pingresp", "outgoing"}
    /\ ppc = "poll"
    /\ queue # <<>>
    /\ topics # <<>>

\* C9: when poll returns Err the producer ends normally (it does not panic)
\* and drops its sender; from then on it never polls again.
C9_StreamEndStopsProducer ==
    [][/\ notification' = "Err" => (ppc' = "done" /\ ~txOpen')
       /\ notification = "Err" =>
             UNCHANGED <<polled, notification, ppc, pending, constructed>>]_vars

C9_Witness ==
    /\ notification = "Err"
    /\ ppc = "done"
    /\ polled = MaxNotifications - 1
    /\ cpc = "done"

\* C10: the consumer is done only when the sender is dropped, the buffer is
\* empty and every emitted event has been applied; and once the sender is
\* dropped (the receiver still being there) the consumer eventually is done.
C10_GracefulShutdown ==
    /\ [](cpc = "done" => (~txOpen /\ queue = <<>> /\ applied = emitted))
    /\ ((~txOpen /\ rxOpen) ~> cpc = "done")

C10_Witness ==
    /\ cpc = "done"
    /\ Len(applied) = 2
    /\ ppc = "panicked"

\* C11: a publish polled while the local offset cannot be resolved still
\* yields an event (with the fallback timestamp) that the producer goes on to
\* push: every poll that returns a publish leaves the producer in send with
\* the event built.
C11_FallbackKeepsRunning ==
    [][(polled' # polled /\ notification' = "publish")
          => /\ ppc' = "send"
             /\ pending' # NoEvent
             /\ Len(constructed') = Len(constructed) + 1]_vars

(***************************************************************************)
(* str::parse::<u16>, as the config form applies it to the port text       *)
(***************************************************************************)

MaxPortLen == 5

U16Max == 65535

DigitChars == <<"0", "1", "2", "3", "4", "5", "6", "7", "8", "9">>

IsDigit(c) == \E i \in 1..Len(DigitChars) : DigitChars[i] = c

\* char::to_digit(10)
ToDigit(c) == (CHOOSE i \in 1..Len(DigitChars) : DigitChars[i] = c) - 1

\* checked_mul / checked_add of u16 report an overflow above u16::MAX
OverflowsNever(n) == FALSE

Overflows(n) == n > U16Max

\* the digit loop: InvalidDigit on a non-digit, PosOverflow on overflow
RECURSIVE ParseDigits(_, _)
ParseDigits(ds, acc) ==
    IF ds = <<>> THEN ParseOk(acc)
    ELSE IF ~IsDigit(Head(ds)) THEN ParseErr
    ELSE IF Overflows(acc * 10) THEN ParseErr
    ELSE IF Overflows(acc * 10 + ToDigit(Head(ds))) THEN ParseErr
    ELSE ParseDigits(Tail(ds), acc * 10 + ToDigit(Head(ds)))

\* Empty on "", InvalidDigit on a lone sign; an unsigned type strips a
\* leading "+" and leaves a leading "-" to the digit loop, which rejects it
ParseU16(s) ==
    IF s = <<>> THEN ParseErr
    ELSE IF Len(s) = 1 /\ Head(s) \in {"+", "-"} THEN ParseErr
    ELSE IF Head(s) = "+" THEN ParseDigits(Tail(s), 0)
    ELSE ParseDigits(s, 0)

\* the characters port texts are drawn from, and the texts of the tests
PortAlphabet == {"0", "3", "5", "6", "-", "+", "a"}

PortExamples ==
    { <<"a", "b", "c">>, <<"-", "1">>, <<"7", "0", "0", "0", "0">>, <<"0">>,
      <<"1", "8", "8", "3">>, <<"6", "5", "5", "3", "5">>,
      <<"1", "2", "a", "b">>, <<>> }

PortInputs ==
    PortExamples \cup UNION {[1..n -> PortAlphabet] : n \in 0..MaxPortLen}

InitParse ==
    /\ InitCommon
    /\ InitFormState
    /\ InitAuxIdle
    /\ config = DefaultConfig
    /\ fpc = "none"
    /\ rpc = "none"
    /\ ppc = "none"
    /\ cpc = "none"
    /\ upc = "none"
    /\ txOpen = FALSE
    /\ rxOpen = FALSE
    /\ parsed = Unparsed
    /\ input \in PortInputs

\* self.state.port.parse::<u16>()
parse_u16 ==
    /\ parsed = Unparsed
    /\ parsed' = ParseU16(input)
    /\ UNCHANGED <<pipeVars, auxVars, host, port, focus, error, connecting, spinner_idx,
                   result, pending_conn, probes, since_spinner, fpc, input>>

NextParse == parse_u16

SpecParse == InitParse /\ [][NextParse]_vars

\* the number a string of decimal digits denotes, least significant digit
\* first
RECURSIVE DecimalValue(_)
DecimalValue(ds) ==
    IF ds = <<>> THEN 0
    ELSE DecimalValue(SubSeq(ds, 1, Len(ds) - 1)) * 10 + ToDigit(ds[Len(ds)])

\* the digits of an unsigned decimal numeral (a "+" may precede them)
NumeralDigits(s) == IF s # <<>> /\ Head(s) = "+" THEN Tail(s) ELSE s

IsNumeral(s) ==
    /\ NumeralDigits(s) # <<>>
    /\ \A i \in 1..Len(NumeralDigits(s)) : IsDigit(NumeralDigits(s)[i])

DenotesPort(s) == IsNumeral(s) /\ DecimalValue(NumeralDigits(s)) \in 0..U16Max

MaxFieldLen == 1
MaxProbes == 2

SpinnerPeriod == 300
SpinnerPhases == 4
PollTimeout == 100

\* the characters typed into the form
TypedChars == {"1"}

PortInvalid == <<"Port must be a valid number">>
HostUnreachable(h) == <<"Host unreachable: ">> \o h
CheckDisconnected == <<"Connection check failed (disconnected)">>

\* the form screen with its state, as one value
form ==
    [host |-> host, port |-> port, focus |-> focus, error |-> error,
     connecting |-> connecting, spinner_idx |-> spinner_idx,
     result |-> result, pending_conn |-> pending_conn, probes |-> probes,
     since_spinner |-> since_spinner]

FormBecomes(s) ==
    /\ host' = s.host
    /\ port' = s.port
    /\ focus' = s.focus
    /\ error' = s.error
    /\ connecting' = s.connecting
    /\ spinner_idx' = s.spinner_idx
    /\ result' = s.result
    /\ pending_conn' = s.pending_conn
    /\ probes' = s.probes
    /\ since_spinner' = s.since_spinner

\* a next_field that stops at the last field
next_field_stopping(s) == [s EXCEPT !.focus = "Port"]

next_field(s) ==
    [s EXCEPT !.focus = IF s.focus = "Host" THEN "Port" ELSE "Host"]

prev_field(s) ==
    [s EXCEPT !.focus = IF s.focus = "Host" THEN "Port" ELSE "Host"]

\* an insert_char that always types into the host field
insert_char_into_host(s, c) == [s EXCEPT !.host = Append(@, c)]

insert_char(s, c) ==
    IF s.focus = "Host" THEN [s EXCEPT !.host = Append(@, c)]
    ELSE [s EXCEPT !.port = Append(@, c)]

\* String::pop
Pop(t) == IF t = <<>> THEN t ELSE SubSeq(t, 1, Len(t) - 1)

delete_char(s) ==
    IF s.focus = "Host" THEN [s EXCEPT !.host = Pop(@)]
    ELSE [s EXCEPT !.port = Pop(@)]

\* an update_spinner that advances on every pass of the loop
update_spinner_every_pass(s, duration) ==
    [s EXCEPT !.spinner_idx = (@ + 1) % SpinnerPhases, !.since_spinner = 0]

update_spinner(s, duration) ==
    IF s.since_spinner >= duration
    THEN [s EXCEPT !.spinner_idx = (@ + 1) % SpinnerPhases,
                   !.since_spinner = 0]
    ELSE s

\* a validation thread with the channel it sends its result on: the thread is
\* running validate_broker, has sent, or has exited and dropped the Sender;
\* msg is the result waiting in the channel
Probe == [thread |-> "running", msg |-> "none"]

\* the Receiver of probe i, with what the probe was spawned with and the
\* number of results received through it so far
Receiver(i, h, p) == [probe |-> i, host |-> h, port |-> p, received |-> 0]

spawn_validation_thread(s, h, p) ==
    [s EXCEPT !.probes = Append(@, Probe),
              !.pending_conn = Some(Receiver(Len(s.probes) + 1, h, p))]

\* a try_recv that does not notice that the Sender is gone
try_recv_unaware(pr) == IF pr.msg # "none" THEN pr.msg ELSE "Empty"

\* Receiver::try_recv
try_recv(pr) ==
    IF pr.msg # "none" THEN pr.msg
    ELSE IF pr.thread = "exited" THEN "Disconnected"
    ELSE "Empty"

\* the Receiver after try_recv returned r
Polled(rx, r) ==
    [rx EXCEPT !.received = IF r \in {"ok", "err"} THEN @ + 1 ELSE @]

\* the arms for a failed check and for a disconnected channel forget the
\* Receiver
DiscardedKeepsReceiver(t, msg) ==
    [t EXCEPT !.error = Some(msg), !.connecting = FALSE, !.spinner_idx = 0]

\* failure arms that forget the Receiver and leave the flag set
DiscardedStillConnecting(t, msg) ==
    [t EXCEPT !.error = Some(msg), !.spinner_idx = 0, !.pending_conn = None]

Discarded(t, msg) ==
    [t EXCEPT !.error = Some(msg), !.connecting = FALSE, !.spinner_idx = 0,
              !.pending_conn = None]

process_pending_conn(s) ==
    IF s.pending_conn = None THEN s
    ELSE
      LET rx == s.pending_conn[1]
          r == try_recv(s.probes[rx.probe])
          t == [s EXCEPT !.probes[rx.probe].msg = "none",
                         !.pending_conn = Some(Polled(rx, r))]
      IN  CASE r = "ok" ->
                 IF ParseU16(t.port).kind = "Ok"
                 THEN [t EXCEPT !.result =
                          Some([host |-> t.host,
                                port |-> ParseU16(t.port).value])]
                 ELSE [t EXCEPT !.error = Some(PortInvalid)]
            [] r = "err" -> Discarded(t, HostUnreachable(t.host))
            [] r = "Empty" -> t
            [] r = "Disconnected" -> Discarded(t, CheckDisconnected)

\* "ignore if already connecting"
AlreadyConnectingNever(s) == FALSE

AlreadyConnecting(s) == s.connecting

on_enter_pressed_unchecked(s) ==
    IF AlreadyConnecting(s) THEN s
    ELSE spawn_validation_thread(
             [s EXCEPT !.error = None, !.connecting = TRUE, !.spinner_idx = 0],
             s.host, ParseU16(s.port).value)

on_enter_pressed(s) ==
    IF ParseU16(s.port).kind = "Ok"
    THEN IF AlreadyConnecting(s) THEN s
         ELSE spawn_validation_thread(
                  [s EXCEPT !.error = None, !.connecting = TRUE,
                            !.spinner_idx = 0],
                  s.host, ParseU16(s.port).value)
    ELSE [s EXCEPT !.error = Some(PortInvalid)]

\* what event::poll and event::read give handle_input
FormKeys ==
    {[code |-> k, c |-> ""] :
        k \in {"Tab", "Down", "BackTab", "Up", "Backspace", "Enter", "Other"}}
    \cup {[code |-> "Char", c |-> c] : c \in TypedChars}

FocusedField(s) == IF s.focus = "Host" THEN s.host ELSE s.port

\* the keys within the bounds of the model
KeyWithinBounds(s, key) ==
    /\ key.code = "Char" => Len(FocusedField(s)) < MaxFieldLen
    /\ key.code = "Enter" =>
           \/ Len(s.probes) < MaxProbes
           \/ on_enter_pressed(s).probes = s.probes

\* the match on key.code
KeyPressed(s, key) ==
    CASE key.code \in {"Tab", "Down"} -> next_field(s)
      [] key.code \in {"BackTab", "Up"} -> prev_field(s)
      [] key.code = "Char" -> insert_char(s, key.c)
      [] key.code = "Backspace" -> delete_char(s)
      [] key.code = "Enter" -> on_enter_pressed(s)
      [] OTHER -> s

Elapse(s, ms) ==
    [s EXCEPT !.since_spinner =
        IF @ + ms > SpinnerPeriod THEN SpinnerPeriod ELSE @ + ms]

\* the form as ConfigFormScreen (tui/config_form.rs) or as
\* run_config_form_screen (tui.rs): the module tui has both files
InitForm ==
    /\ InitCommon
    /\ InitFormState
    /\ InitAuxIdle
    /\ config = DefaultConfig
    /\ txOpen = FALSE
    /\ rxOpen = FALSE
    /\ rpc = "none"
    /\ ppc = "none"
    /\ cpc = "none"
    /\ upc = "none"
    /\ fpc \in {"draw", "run_config_form_screen"}
    /\ input = <<>>
    /\ parsed = Unparsed

\* one pass of the loop of run up to handle_input: draw, update_spinner while
\* connecting, process_pending_conn, return when a result is set
ConfigFormScreen_run ==
    /\ fpc = "draw"
    /\ \E drawn \in BOOLEAN :
         IF ~drawn
         THEN /\ fpc' = "failed"
              /\ FormBecomes(form)
         ELSE LET s1 == IF form.connecting
                        THEN update_spinner(form, SpinnerPeriod)
                        ELSE form
                  s2 == process_pending_conn(s1)
              IN  /\ FormBecomes(s2)
                  /\ fpc' = IF s2.result # None THEN "completed" ELSE "input"
    /\ UNCHANGED <<pipeVars, auxVars, input, parsed>>

\* handle_input: no event within the poll timeout, a key, Esc, or an I/O error
ConfigFormScreen_handle_input ==
    /\ fpc = "input"
    /\ \/ /\ FormBecomes(Elapse(form, PollTimeout))
          /\ fpc' = "draw"
       \/ \E key \in FormKeys :
            /\ KeyWithinBounds(form, key)
            /\ FormBecomes(KeyPressed(form, key))
            /\ fpc' = "draw"
       \/ /\ FormBecomes(form)
          /\ fpc' \in {"cancelled", "failed"}
    /\ UNCHANGED <<pipeVars, auxVars, input, parsed>>

\* the Receiver of probe i is still held by the form
ReceiverAlive(i) == pending_conn # None /\ pending_conn[1].probe = i

\* the spawned closure: validate_broker returns and its result is sent (the
\* send fails, and is ignored, when the Receiver is gone)
validation_thread_send ==
    /\ \E i \in 1..Len(probes) : \E res \in {"ok", "err"} :
         /\ probes[i].thread = "running"
         /\ probes' = [probes EXCEPT
                ![i].thread = "sent",
                ![i].msg = IF ReceiverAlive(i) THEN res ELSE "none"]
    /\ UNCHANGED <<pipeVars, auxVars, host, port, focus, error, connecting, spinner_idx,
                   result, pending_conn, since_spinner, fpc, input, parsed>>

\* the closure ends, after the send or by a panic before it, and drops the
\* Sender
validation_thread_exit ==
    /\ \E i \in 1..Len(probes) :
         /\ probes[i].thread \in {"running", "sent"}
         /\ probes' = [probes EXCEPT ![i].thread = "exited"]
    /\ UNCHANGED <<pipeVars, auxVars, host, port, focus, error, connecting, spinner_idx,
                   result, pending_conn, since_spinner, fpc, input, parsed>>

\* the match on key.code of run_config_form_screen, Enter apart
LegacyKeyPressed(s, key) ==
    CASE key.code \in {"Tab", "Down"} -> [next_field(s) EXCEPT !.error = None]
      [] key.code \in {"BackTab", "Up"} ->
             [prev_field(s) EXCEPT !.error = None]
      [] key.code = "Char" -> [insert_char(s, key.c) EXCEPT !.error = None]
      [] key.code = "Backspace" -> [delete_char(s) EXCEPT !.error = None]
      [] OTHER -> s

\* KeyCode::Enter of run_config_form_screen
LegacyEnterPressed(s) ==
    IF ParseU16(s.port).kind = "Ok"
    THEN [s EXCEPT !.result =
             Some([host |-> s.host, port |-> ParseU16(s.port).value])]
    ELSE [s EXCEPT !.error = Some(PortInvalid)]

\* one pass of the loop of run_config_form_screen: draw, poll, and on Enter
\* return the MQTTConfig when the port parses
run_config_form_screen ==
    /\ fpc = "run_config_form_screen"
    /\ \/ /\ FormBecomes(form)
          /\ fpc' \in {"run_config_form_screen", "cancelled", "failed"}
       \/ \E key \in FormKeys \ {[code |-> "Enter", c |-> ""]} :
            /\ key.code = "Char" => Len(FocusedField(form)) < MaxFieldLen
            /\ FormBecomes(LegacyKeyPressed(form, key))
            /\ fpc' = fpc
       \/ /\ FormBecomes(LegacyEnterPressed(form))
          /\ fpc' = IF LegacyEnterPressed(form).result # None
                    THEN "completed" ELSE fpc
    /\ UNCHANGED <<pipeVars, auxVars, input, parsed>>

NextForm ==
    \/ run_config_form_screen
    \/ ConfigFormScreen_run
    \/ ConfigFormScreen_handle_input
    \/ validation_thread_send
    \/ validation_thread_exit

SpecForm == InitForm /\ [][NextForm]_vars

----------------------------------------------------------------------------
(* Claims about the configuration form *)

\* C12: the form completes (an MQTTConfig is returned) only after a probe
\* was spawned and reported success: in a completed form the Receiver of a
\* probe is held and a result was received through it.
C12_CompletedOnlyAfterProbe ==
    fpc = "completed" =>
        /\ result # None
        /\ pending_conn # None
        /\ pending_conn[1].received > 0

\* C13: the MQTTConfig the form completes with after a successful probe has
\* the host and the port that probe was spawned with.
C13_ValidatedConfig ==
    (result # None /\ pending_conn # None) =>
        /\ result[1].host = pending_conn[1].host
        /\ result[1].port = pending_conn[1].port

\* a probe is outstanding while its thread runs validate_broker or its result
\* waits in the channel
Outstanding(i) == probes[i].thread = "running" \/ probes[i].msg # "none"

\* C14: at most one probe is outstanding at any time.
C14_OneProbeOutstanding ==
    Cardinality({i \in 1..Len(probes) : Outstanding(i)}) <= 1

C14_Witness ==
    /\ Len(probes) = 1
    /\ probes[1].thread = "running"
    /\ connecting
    /\ error = Some(PortInvalid)

\* C15: an Enter pressed while the form is connecting leaves the whole form
\* (host, port, focus, error, connecting, spinner_idx, pending_conn, probes)
\* as it was.
C15_EnterIgnoredWhileProbing ==
    [][(fpc = "input" /\ connecting /\ fpc' = "draw"
            /\ form' = on_enter_pressed(form))
          => form' = form]_vars

\* the form was looking at a failed check: the draw pass finds "err" or a
\* disconnected channel behind pending_conn
ProbeFailureSeen ==
    /\ fpc = "draw"
    /\ fpc' \in {"input", "completed"}
    /\ pending_conn # None
    /\ try_recv(probes[pending_conn[1].probe]) \in {"err", "Disconnected"}

\* Enter on s spawns a probe
EnterSpawns(s) == Len(on_enter_pressed(s).probes) = Len(s.probes) + 1

\* C16: when the form sees a probe fail (an error result or a disconnected
\* channel) it is editable again: connecting is false, the error is set,
\* spinner_idx is 0, pending_conn is None, no result is set and the loop goes
\* on to handle_input; and whenever the form is not connecting, an Enter with
\* a port that parses spawns a probe.
C16_FailureReturnsToEditable ==
    /\ [][ProbeFailureSeen =>
            /\ ~connecting'
            /\ error' \in {Some(HostUnreachable(host)), Some(CheckDisconnected)}
            /\ spinner_idx' = 0
            /\ pending_conn' = None
            /\ result' = None
            /\ fpc' = "input"]_vars
    /\ []((fpc = "input" /\ ~connecting /\ ParseU16(port).kind = "Ok")
            => EnterSpawns(form))

C16_Witness ==
    /\ error = Some(HostUnreachable(<<"1">>))
    /\ ~connecting
    /\ pending_conn = None
    /\ result = None
    /\ Len(probes) = 1
    /\ fpc = "input"

\* C17: once a result was received through a probe's Receiver, the form does
\* not poll that Receiver again.
C17_ResultActedOnce ==
    [][~(/\ fpc = "draw"
         /\ fpc' \in {"input", "completed"}
         /\ pending_conn # None
         /\ pending_conn[1].received > 0)]_vars

\* an Enter step of either form
EnterStep ==
    \/ /\ fpc = "input"
       /\ fpc' = "draw"
       /\ form' = on_enter_pressed(form)
    \/ /\ fpc = "run_config_form_screen"
       /\ fpc' = fpc
       /\ form' = LegacyEnterPressed(form)

\* C18: an Enter while the form is not connecting and the port does not parse
\* as u16 sets the error and nothing else: no probe is spawned, connecting
\* stays false, host, port and focus are unchanged.
C18_InvalidPortKeepsEditable ==
    [][(~connecting /\ ParseU16(port).kind = "Err" /\ EnterStep) =>
          /\ error' = Some(PortInvalid)
          /\ probes' = probes
          /\ pending_conn' = pending_conn
          /\ ~connecting'
          /\ result' = None
          /\ host' = host
          /\ port' = port
          /\ focus' = focus]_vars

C18_Witness ==
    /\ error = Some(PortInvalid)
    /\ ~connecting
    /\ probes = <<>>
    /\ host = <<"1">>
    /\ port = <<>>
    /\ focus = "Port"
    /\ fpc = "draw"

----------------------------------------------------------------------------
(* Claims about navigation *)

\* C20: on a store with n > 0 topics a Down key (next) moves selected_index
\* to (selected_index + 1) mod n and an Up key (previous) moves it to
\* (selected_index - 1) mod n; neither changes topics.
C20_NextPreviousModular ==
    [][/\ (upc = "down" /\ upc' = "render" /\ Len(topics) > 0) =>
            /\ selected_index' = (selected_index + 1) % Len(topics)
            /\ topics' = topics
       /\ (upc = "up" /\ upc' = "render" /\ Len(topics) > 0) =>
            /\ selected_index' = (selected_index - 1) % Len(topics)
            /\ topics' = topics]_vars

C20_Witness ==
    /\ Len(topics) = 2
    /\ selected_index = 1
    /\ upc = "render"
    /\ snapshot # NoEvent
    /\ Len(snapshot.topics) = 2
    /\ snapshot.selected_index = 0

----------------------------------------------------------------------------
(* AppState::next and AppState::previous on a store of any size *)

MaxTopics == 4

\* a store that n first messages of n topics have built
StoreOf(n) ==
    [i \in 1..n |->
        [name |-> ToString(i),
         messages |-> <<[payload |-> "1", timestamp |-> FormatTimestamp(1500)]>>]]

InitNav ==
    /\ InitPipeline
    /\ InitFormIdle
    /\ config = DefaultConfig
    /\ txOpen = FALSE
    /\ rxOpen = FALSE
    /\ rpc = "none"
    /\ ppc = "none"
    /\ cpc = "none"
    /\ upc = "none"
    /\ poisoned = FALSE
    /\ mpc = "none"
    /\ raw_mode = FALSE
    /\ alternate_screen = FALSE
    /\ InitTickIdle
    /\ \E n \in 0..MaxTopics :
         /\ topics = StoreOf(n)
         /\ selected_index \in (IF n = 0 THEN {0} ELSE 0..(n - 1))
    /\ \E op \in {"next", "previous"} :
         nav = [op |-> op, start |-> selected_index, count |-> 0,
                failed |-> FALSE]

\* one more call of the operation of the run, unless the last one failed
Navigated(o) ==
    /\ selected_index' = o.value
    /\ nav' = [nav EXCEPT !.count = @ + 1, !.failed = o.failed]
    /\ UNCHANGED <<topics, holders, chanVars, rpc, ppc, pending, cpc, cur, upc,
                   snapshot, pollVars, histVars, config, formVars, poisoned,
                   mpc, raw_mode, alternate_screen, tickVars>>

AppState_next ==
    /\ nav.op = "next"
    /\ ~nav.failed
    /\ nav.count < 2 * MaxTopics
    /\ Navigated(next_outcome(topics, selected_index))

AppState_previous ==
    /\ nav.op = "previous"
    /\ ~nav.failed
    /\ nav.count < 2 * MaxTopics
    /\ Navigated(previous_outcome(topics, selected_index))

NextNav ==
    \/ AppState_next
    \/ AppState_previous

SpecNav == InitNav /\ [][NextNav]_vars

\* C21: on a store of N >= 1 topics, N calls of next(), and likewise N calls
\* of previous(), bring selected_index back to the index the run started at.
C21_NavigationCycle ==
    (Len(topics) >= 1 /\ nav.count = Len(topics)) =>
        /\ ~nav.failed
        /\ selected_index = nav.start

C21_Witness ==
    /\ Len(topics) = 3
    /\ nav.op = "previous"
    /\ nav.start = 1
    /\ nav.count = 3
    /\ selected_index = 1

\* C22: on an empty store no call of next() or previous() fails (no division
\* by zero, no subtraction below zero) and selected_index stays 0.
C22_EmptyStoreNavigation ==
    topics = <<>> =>
        /\ ~nav.failed
        /\ selected_index = 0

C22_Witness ==
    /\ topics = <<>>
    /\ nav.op = "previous"
    /\ nav.count = 2
    /\ selected_index = 0

----------------------------------------------------------------------------
(* Claims about the interactive loop *)

\* a step of the loop of TopicActivityScreen::run
LoopStep == upc' # upc

\* C23: a Down key applies next() once and an Up key applies previous() once,
\* after which the loop renders again; any outcome of the input poll other
\* than Down, Up, q and an I/O error leaves topics and selected_index as they
\* are and keeps the loop running.
C23_KeysNavigate ==
    /\ [](/\ AfterInput("Down") = "down"
          /\ AfterInput("Up") = "up"
          /\ \A e \in InputOutcomes \ {"Down", "Up", "q", "error"} :
                AfterInput(e) = "render")
    /\ [][/\ (upc = "down" /\ LoopStep) =>
               /\ selected_index' = next(topics, selected_index)
               /\ topics' = topics
               /\ upc' = "render"
          /\ (upc = "up" /\ LoopStep) =>
               /\ selected_index' = previous(topics, selected_index)
               /\ topics' = topics
               /\ upc' = "render"
          /\ (upc \in {"input", "render", "draw"} /\ LoopStep) =>
               /\ selected_index' = selected_index
               /\ topics' = topics]_vars

C23_Witness ==
    /\ upc = "render"
    /\ Len(topics) = 2
    /\ selected_index = 1
    /\ snapshot # NoEvent
    /\ snapshot.selected_index = 0
    /\ Len(snapshot.topics) = 2

\* C24: q moves the loop to terminated, and a terminated loop takes no
\* further step: it does not lock, draw, poll or navigate.
C24_QuitTerminates ==
    /\ [](AfterInput("q") = "terminated")
    /\ [][upc = "terminated" =>
            /\ upc' = "terminated"
            /\ snapshot' = snapshot
            /\ selected_index' = selected_index
            /\ "ui" \notin holders']_vars

C24_Witness ==
    /\ upc = "terminated"
    /\ Len(topics) = 2
    /\ snapshot # NoEvent
    /\ Len(snapshot.topics) = 1
    /\ cpc = "done"

\* C27: a draw leaves topics and selected_index as they are and observes
\* exactly them, so a draw of a store that equals what the previous draw
\* observed observes the same again.
C27_RenderReadsOnly ==
    [][(upc = "draw" /\ LoopStep) =>
          /\ topics' = topics
          /\ selected_index' = selected_index
          /\ snapshot'.topics = topics
          /\ snapshot'.selected_index = selected_index
          /\ (/\ snapshot # NoEvent
              /\ snapshot.topics = topics
              /\ snapshot.selected_index = selected_index)
                => /\ snapshot'.topics = snapshot.topics
                   /\ snapshot'.selected_index = snapshot.selected_index]_vars

C27_Witness ==
    /\ upc = "input"
    /\ snapshot # NoEvent
    /\ Len(snapshot.topics) = 2
    /\ snapshot.selected_index = 1
    /\ topics = snapshot.topics
    /\ selected_index = 1
    /\ cpc = "done"

----------------------------------------------------------------------------
(* A panic of the consumer inside the critical section *)

\* parse(MQTT_TIMESTAMP_FORMAT).unwrap() or timestamp.format(..).unwrap()
\* panics while menu_lock is held: the guard is dropped by the unwinding and
\* poisons the mutex, the task ends and its Receiver is dropped
push_message_into_topic_panic ==
    /\ cpc = "push"
    /\ poisoned' = TRUE
    /\ holders' = holders \ {"consumer"}
    /\ cpc' = "panicked"
    /\ cur' = NoEvent
    /\ queue' = <<>>
    /\ rxOpen' = FALSE
    /\ UNCHANGED <<storeVars, txOpen, rpc, ppc, pending, upc, snapshot,
                   pollVars, histVars, config, formVars, nav, mpc, raw_mode,
                   alternate_screen, tickVars>>

NextPoison ==
    \/ handle_incoming_messages_end
    \/ handle_incoming_messages_publish(PublishNotifications, MaxNotifications)
    \/ handle_incoming_messages_send
    \/ Consumer
    \/ push_message_into_topic_panic
    \/ Screen

SpecPoison == InitDriven /\ [][NextPoison]_vars

\* C26: the step of the loop that meets the poisoned mutex, be it the lock of
\* run before the draw or the lock of a Down or an Up, ends the loop with an
\* error.
C26_PoisonIsFatal ==
    [][(poisoned /\ upc \in {"render", "down", "up"} /\ LoopStep)
          => upc' = "error"]_vars

\* ---------------------------------------------------------------------
\* The entry point (main.rs:24-76) around the interactive loop: mpc is the
\* position of main, raw_mode and alternate_screen are the two terminal
\* modes init_terminal switches on.
\* ---------------------------------------------------------------------

InitMain ==
    /\ InitCommon
    /\ InitFormIdle
    /\ config = DefaultConfig
    /\ txOpen = FALSE
    /\ rxOpen = FALSE
    /\ rpc = "returned"
    /\ ppc = "none"
    /\ cpc = "none"
    /\ upc = "none"
    /\ poisoned = FALSE
    /\ nav = NoNav
    /\ mpc = "init"
    /\ raw_mode = FALSE
    /\ alternate_screen = FALSE
    /\ InitTickIdle

\* what main leaves alone while it is outside run_app
MainFrame ==
    UNCHANGED <<storeVars, holders, queue, rpc, pending, cur, snapshot,
                pollVars, histVars, config, formVars, poisoned, nav,
                tickVars>>

\* main.rs:25 with tui/mod.rs:23-31: enable_raw_mode, then
\* EnterAlternateScreen; either may fail, and the unwrap then panics
init_terminal ==
    /\ mpc = "init"
    /\ \E outcome \in {"ok", "raw_failed", "screen_failed"} :
         /\ raw_mode' = (outcome # "raw_failed")
         /\ alternate_screen' = (outcome = "ok")
         /\ mpc' = IF outcome = "ok" THEN "subscribe" ELSE "panicked"
    /\ UNCHANGED <<txOpen, rxOpen, ppc, cpc, upc>>
    /\ MainFrame

\* main.rs:30-31: subscribe("#").await? returns from main on an error
main_subscribe ==
    /\ mpc = "subscribe"
    /\ \E ok \in BOOLEAN : mpc' = IF ok THEN "spawn" ELSE "exited"
    /\ UNCHANGED <<txOpen, rxOpen, ppc, cpc, upc, raw_mode, alternate_screen>>
    /\ MainFrame

\* main.rs:33-70: the channel, the two spawned tasks, and the call of run_app
main_spawn ==
    /\ mpc = "spawn"
    /\ txOpen' = TRUE
    /\ rxOpen' = TRUE
    /\ ppc' = "poll"
    /\ cpc' = "recv"
    /\ upc' = "render"
    /\ mpc' = "run_app"
    /\ UNCHANGED <<raw_mode, alternate_screen>>
    /\ MainFrame

\* main.rs:70: run_app(..)? returns from main when the loop returned an
\* error, and goes on to lines 72-75 when it returned Ok
main_run_app_returns ==
    /\ mpc = "run_app"
    /\ upc \in {"terminated", "error"}
    /\ mpc' = IF upc = "terminated" THEN "restore" ELSE "exited"
    /\ UNCHANGED <<txOpen, rxOpen, ppc, cpc, upc, raw_mode, alternate_screen>>
    /\ MainFrame

\* main.rs:72-75: disable_raw_mode with its result dropped, then
\* execute!(LeaveAlternateScreen)? which may fail
main_restore ==
    /\ mpc = "restore"
    /\ \E disabled \in BOOLEAN, left \in BOOLEAN :
         /\ raw_mode' = ~disabled
         /\ alternate_screen' = ~left
    /\ mpc' = "exited"
    /\ UNCHANGED <<txOpen, rxOpen, ppc, cpc, upc>>
    /\ MainFrame

NextMain ==
    \/ init_terminal
    \/ main_subscribe
    \/ main_spawn
    \/ main_run_app_returns
    \/ main_restore
    \/ handle_incoming_messages_end
    \/ handle_incoming_messages_publish(FloodNotifications, MaxNotifications)
    \/ handle_incoming_messages_send
    \/ Consumer
    \/ Screen

SpecMain == InitMain /\ [][NextMain]_vars

\* C25: once init_terminal has succeeded, main never exits with the
\* terminal still in raw mode or still on the alternate screen, as long as
\* the restoring calls themselves succeed.
C25_TerminalRestored ==
    [][(mpc' = "exited" /\ mpc # "exited" /\ mpc # "restore")
         => (~raw_mode' /\ ~alternate_screen')]_vars

----------------------------------------------------------------------------
(* Claims about the fields of the configuration form *)

\* the other one of the two fields
OtherField(f) == IF f = "Host" THEN "Port" ELSE "Host"

\* C28: the focus is Host or Port and starts at Host; next_field and
\* prev_field each move it to the other field and change nothing else, and
\* either of them applied twice gives the form back.
C28_FocusToggles ==
    /\ focus = "Host"
    /\ [](/\ focus \in {"Host", "Port"}
          /\ next_field(form) = [form EXCEPT !.focus = OtherField(focus)]
          /\ prev_field(form) = [form EXCEPT !.focus = OtherField(focus)]
          /\ next_field(form).focus # focus
          /\ prev_field(form).focus # focus
          /\ next_field(next_field(form)) = form
          /\ prev_field(prev_field(form)) = form)

\* the focus went to the port field, a character was typed there, and the
\* focus came back
C28_Witness ==
    /\ focus = "Host"
    /\ port = <<"1">>
    /\ host = <<>>
    /\ ~connecting
    /\ fpc = "input"

\* characters a key event may carry, digits or not
KeyChars == {"1", "a", "."}

\* t is s but for the one field named f, which is v
OnlyFieldChanged(s, t, f, v) ==
    /\ t = [s EXCEPT ![IF f = "Host" THEN "host" ELSE "port"] = v]
    /\ t.focus = s.focus
    /\ t.error = s.error
    /\ (f = "Host" => t.host = v /\ t.port = s.port)
    /\ (f = "Port" => t.port = v /\ t.host = s.host)

\* the text of the focused field
Focused(s) == IF s.focus = "Host" THEN s.host ELSE s.port

\* C29: insert_char(c) puts c at the end of the focused field, delete_char
\* takes the last character off it and leaves an empty field empty; the
\* other field, the focus and the error stay as they are.
C29_EditsFocusedField ==
    /\ \A c \in KeyChars :
         OnlyFieldChanged(form, insert_char(form, c), focus,
                          Focused(form) \o <<c>>)
    /\ OnlyFieldChanged(form, delete_char(form), focus,
                        IF Focused(form) = <<>> THEN <<>>
                        ELSE [i \in 1..(Len(Focused(form)) - 1) |->
                                  Focused(form)[i]])

\* a character typed into the port field next to an empty host field, with
\* the message of a failed probe on display
C29_Witness ==
    /\ focus = "Port"
    /\ port = <<"1">>
    /\ host = <<>>
    /\ error # None
    /\ fpc = "input"

----------------------------------------------------------------------------
(* Claims about the growth of the store *)

\* C30: in every step each topic keeps its place and its name and each log
\* keeps its messages as a prefix of the new log; a step that changes topics
\* adds one message to one topic (an existing one or a new last one) and
\* leaves every other topic as it was, and every applied event is such a
\* step.
C30_AppendOnly ==
    [][/\ Len(topics') >= Len(topics)
       /\ \A i \in 1..Len(topics) :
            /\ topics'[i].name = topics[i].name
            /\ Len(topics'[i].messages) >= Len(topics[i].messages)
            /\ \A k \in 1..Len(topics[i].messages) :
                 topics'[i].messages[k] = topics[i].messages[k]
       /\ (topics' # topics) =>
            \E i \in 1..Len(topics') :
               /\ Len(topics'[i].messages) =
                    (IF i <= Len(topics) THEN Len(topics[i].messages) ELSE 0)
                    + 1
               /\ \A j \in 1..Len(topics') \ {i} :
                    j <= Len(topics) /\ topics'[j] = topics[j]
       /\ (applied' # applied) => (topics' # topics)
       /\ (topics' # topics) => (Len(applied') = Len(applied) + 1)]_vars

\* the third event has just been appended to the log of the first topic,
\* behind a second topic created in between
C30_Witness ==
    /\ cpc = "unlock"
    /\ Len(applied) = 3
    /\ Len(topics) = 2
    /\ Len(topics[1].messages) = 2
    /\ Len(topics[2].messages) = 1
    /\ snapshot # NoEvent

\* the store after (a,1), (b,2), (a,3) applied to a new store
ExampleStore ==
    LET ev(t, p) == [topic |-> t, payload |-> p, timestamp |-> 1500]
    IN push_message_into_topic(
           push_message_into_topic(
               push_message_into_topic(<<>>, ev("a", "1")), ev("b", "2")),
           ev("a", "3"))

\* C31: an upsert leaves selected_index as it is and leaves every topic
\* other than the one of the event as it is, so the topic at selected_index
\* of a non-empty store is still the same topic after it; and (a,1), (b,2),
\* (a,3) applied to a new store give [a:[1,3], b:[2]].
C31_UpsertFrame ==
    /\ [](/\ NamesOf(ExampleStore) = <<"a", "b">>
          /\ PayloadsOf(ExampleStore[1].messages) = <<"1", "3">>
          /\ PayloadsOf(ExampleStore[2].messages) = <<"2">>)
    /\ [][(applied' # applied) =>
            /\ selected_index' = selected_index
            /\ \A i \in 1..Len(topics) :
                 topics[i].name # cur.topic => topics'[i] = topics[i]
            /\ topics # <<>> =>
                 topics'[selected_index' + 1].name
                     = topics[selected_index + 1].name]_vars

\* the second topic is selected and the third event has just been appended
\* to the first
C31_Witness ==
    /\ cpc = "unlock"
    /\ selected_index = 1
    /\ Len(applied) = 3
    /\ Len(topics) = 2
    /\ Len(topics[1].messages) = 2
    /\ applied[3].topic = topics[1].name

----------------------------------------------------------------------------
(* Claims about the lock and the waits *)

----------------------------------------------------------------------------
(* The timing of TopicActivityScreen::run: elapsed is last_tick.elapsed(),
   time passes while the loop draws and while it polls for input. *)

\* tick_rate: Duration::from_millis(250)
TickRate == 250

\* the grain of time of the model, a tenth of a tick
TimeStep == TickRate \div 10

\* the longest a draw takes, in grains
MaxDrawSteps == 12

Durations == {k * TimeStep : k \in 0..MaxDrawSteps}

\* a subtraction of durations that goes below zero
CheckedSubUnchecked(a, b) == Some(a - b)

\* Duration::checked_sub: None when b is longer than a
CheckedSub(a, b) == IF b > a THEN None ELSE Some(a - b)

\* Option::unwrap_or
UnwrapOr(o, d) == IF o = None THEN d ELSE o[1]

\* self.tick_rate.checked_sub(self.last_tick.elapsed())
\*     .unwrap_or(Duration::from_secs(0))
TimeoutOf(e) == UnwrapOr(CheckedSub(TickRate, e), 0)

\* TopicActivityScreen::new sets last_tick to Instant::now()
InitTick ==
    /\ InitCommon
    /\ InitFormIdle
    /\ config = DefaultConfig
    /\ txOpen = FALSE
    /\ rxOpen = FALSE
    /\ rpc = "returned"
    /\ ppc = "none"
    /\ cpc = "none"
    /\ upc = "none"
    /\ poisoned = FALSE
    /\ nav = NoNav
    /\ mpc = "none"
    /\ raw_mode = FALSE
    /\ alternate_screen = FALSE
    /\ tpc = "draw"
    /\ elapsed = 0
    /\ timeout = 0

TickFrame ==
    UNCHANGED <<pipeVars, formVars, poisoned, nav, mpc, raw_mode,
                alternate_screen>>

\* run: the lock and terminal.draw take some time
run_draw_takes_time ==
    /\ tpc = "draw"
    /\ \E d \in Durations : elapsed' = elapsed + d
    /\ tpc' = "timeout"
    /\ UNCHANGED timeout
    /\ TickFrame

\* handle_input: let timeout = ...
handle_input_timeout ==
    /\ tpc = "timeout"
    /\ timeout' = TimeoutOf(elapsed)
    /\ tpc' = "poll"
    /\ UNCHANGED elapsed
    /\ TickFrame

\* handle_input: event::poll(timeout) returns true when an event arrives
\* within the timeout, or false when the timeout has passed; the key is then
\* read and handled
handle_input_poll ==
    /\ tpc = "poll"
    /\ \E w \in Durations \cup {timeout} :
         /\ w <= timeout
         /\ elapsed' = elapsed + w
    /\ tpc' = "tick"
    /\ UNCHANGED timeout
    /\ TickFrame

\* run: if self.last_tick.elapsed() >= self.tick_rate
\*          { self.last_tick = Instant::now(); }
run_tick ==
    /\ tpc = "tick"
    /\ elapsed' = IF elapsed >= TickRate THEN 0 ELSE elapsed
    /\ tpc' = "draw"
    /\ UNCHANGED timeout
    /\ TickFrame

NextTick ==
    \/ run_draw_takes_time
    \/ handle_input_timeout
    \/ handle_input_poll
    \/ run_tick

SpecTick == InitTick /\ [][NextTick]_vars

\* C33: the timeout of every poll is what is left of the tick, or zero when
\* nothing is left: never negative, never more than the tick, zero once the
\* time since last_tick has reached the tick; and a poll returns within it.
C33_PollTimeout ==
    [][/\ (tpc = "timeout" /\ tpc' = "poll") =>
            /\ timeout' = (IF TickRate - elapsed > 0
                           THEN TickRate - elapsed ELSE 0)
            /\ timeout' >= 0
            /\ timeout' <= TickRate
            /\ elapsed >= TickRate => timeout' = 0
       /\ (tpc = "poll" /\ tpc' = "tick") =>
            /\ elapsed' - elapsed <= timeout
            /\ elapsed' - elapsed <= TickRate]_vars

\* a poll with the tick used up by a slow draw: its timeout is zero
C33_Witness ==
    /\ tpc = "poll"
    /\ elapsed > TickRate
    /\ timeout = 0

----------------------------------------------------------------------------
(* Claims about the probing phase of the configuration form *)

ProbeStarts == ~connecting /\ connecting'
ProbeFails == connecting /\ ~connecting' /\ result' = None

\* C34: spinner_idx is one of the four phases; it changes only by an
\* advance of one phase modulo 4, made while connecting and with at least the
\* spinner period gone since the last advance, or by a reset to 0 as a probe
\* starts or fails; and it is 0 after every start and every failure of a
\* probe.
C34_SpinnerCycle ==
    /\ [](spinner_idx \in 0..(SpinnerPhases - 1))
    /\ [][/\ (spinner_idx' # spinner_idx) =>
               \/ /\ connecting
                  /\ spinner_idx' = (spinner_idx + 1) % SpinnerPhases
                  /\ since_spinner >= SpinnerPeriod
                  /\ since_spinner' = 0
               \/ /\ spinner_idx' = 0
                  /\ ProbeStarts \/ ProbeFails
          /\ (ProbeStarts \/ ProbeFails) => spinner_idx' = 0]_vars

\* the indicator two phases into a probe that is still running
C34_Witness ==
    /\ connecting
    /\ spinner_idx = 2
    /\ pending_conn # None
    /\ probes[pending_conn[1].probe].thread = "running"
    /\ fpc = "input"

\* C35: between the steps of the form's loop, connecting is TRUE exactly
\* when a Receiver is stored in pending_conn.
C35_ConnectingIffPending == connecting <=> (pending_conn # None)

\* the flag and the Receiver both still there after the probe's Ok was
\* received with a port text that no longer parses
C35_Witness ==
    /\ connecting
    /\ pending_conn # None
    /\ pending_conn[1].received = 1
    /\ error = Some(PortInvalid)
    /\ result = None
    /\ fpc = "input"

\* the probes started in one run of the form under fair scheduling
MaxLiveProbes == 1

\* ConfigFormScreen alone
InitFormLive ==
    /\ InitForm
    /\ fpc = "draw"

\* handle_input with at most MaxLiveProbes probes spawned
handle_input_fair ==
    /\ fpc = "input"
    /\ \/ /\ FormBecomes(Elapse(form, PollTimeout))
          /\ fpc' = "draw"
       \/ \E key \in FormKeys :
            /\ key.code = "Char" => Len(FocusedField(form)) < MaxFieldLen
            /\ key.code = "Enter" =>
                   \/ Len(probes) < MaxLiveProbes
                   \/ on_enter_pressed(form).probes = probes
            /\ FormBecomes(KeyPressed(form, key))
            /\ fpc' = "draw"
       \/ /\ FormBecomes(form)
          /\ fpc' \in {"cancelled", "failed"}
    /\ UNCHANGED <<pipeVars, auxVars, input, parsed>>

NextFormLive ==
    \/ ConfigFormScreen_run
    \/ handle_input_fair
    \/ validation_thread_send
    \/ validation_thread_exit

\* Scheduling of the form: the UI thread goes on with its loop (a draw and
\* its processing, then the poll for input, which returns within its
\* timeout), and a validation thread that was spawned comes to its end, by
\* returning from the closure or by dying.
FormFairness ==
    /\ WF_vars(ConfigFormScreen_run)
    /\ WF_vars(handle_input_fair)
    /\ WF_vars(validation_thread_exit)

SpecFormLive == InitFormLive /\ [][NextFormLive]_vars /\ FormFairness

\* the form has been left by Esc or by an I/O error
FormLeft == fpc \in {"cancelled", "failed"}

\* C36 as stated: every probing phase comes to an end with the form
\* completed or editable again.
C36_ProbingEndsCompletedOrEditable ==
    connecting ~> (result # None \/ ~connecting)

\* C36: every probing phase comes to an end with the form completed, with
\* the form editable again, or with the form left by Esc or an I/O error.
C36_ProbingEnds ==
    connecting ~> (result # None \/ ~connecting \/ FormLeft)

\* back in the editable state after the probe's Ok met a port text that no
\* longer parsed and the channel was then found disconnected
C36_Witness ==
    /\ ~connecting
    /\ pending_conn = None
    /\ error = Some(CheckDisconnected)
    /\ Len(probes) = 1
    /\ probes[1].thread = "exited"
    /\ port = <<>>
    /\ fpc = "input"


====
